---- MODULE Spec2Model ----
(***************************************************************************)
(* A model of git-machete's platform access layer:                         *)
(*   - git_machete/platform.py: find_access_token_for_domain and the       *)
(*     request executor PlatformClient.__fire_api_request;                 *)
(*   - git_machete/gitlab.py: GitLabDomain, GitLabToken (the token         *)
(*     discovery chain), GitLabClient.                                     *)
(*                                                                         *)
(* Python strings that the code inspects character by character (token     *)
(* file lines, domain values) are sequences of one-character strings.      *)
(* An Optional[X] is a sequence of length 0 (None) or 1 (the value).       *)
(***************************************************************************)
EXTENDS Integers, Sequences, FiniteSets, TLC

VARIABLES
    \* ---- token discovery (GitLabToken.for_domain) ----
    gitlab_token,    \* os.environ.get('GITLAB_TOKEN'): Optional string
    token_file,      \* ~/.gitlab-token: [state: missing|unreadable|readable, lines]
    domain,          \* GitLabDomain.value of the domain discovery runs for
    dpc,             \* position inside for_domain
    found,           \* local `token` of __get_token_from_file_in_home_directory
    glab,            \* what the glab probes have answered so far
    consulted,       \* history: the sources queried, in order
    dresult,         \* what for_domain returned or raised
    \* ---- request executor (PlatformClient.__fire_api_request) ----
    client_token,    \* self.__token as __fire_api_request reads it (the attribute
                     \* _PlatformClient__token): Optional [value, provider]
    client_domain,   \* self.__domain.value, likewise
    stack,           \* the recursion: one frame per active __fire_api_request
    requests,        \* history: every HTTP request fired, in order
    responses,       \* history: the answer to each request, in order
    lookups,         \* history: get_org_and_repo_names_by_id calls
    warnings,        \* history: warn(...) calls
    retval,          \* the value a returning frame hands to its caller
    outcome,         \* what the logical call returned or raised
    default_headers, \* the class attribute DEFAULT_HEADERS, a dict
    \* ---- provider client (GitLabClient) ----
    gitlab_client,   \* the instance as __init__ leaves it: the attributes
                     \* _GitLabClient__domain, _GitLabClient__project, _GitLabClient__token
    calls            \* history: the operations called on the client and how each ended

dvars == <<gitlab_token, token_file, domain, dpc, found, glab, consulted, dresult>>
evars == <<client_token, client_domain, stack, retval, requests, responses,
           lookups, warnings, outcome, default_headers>>
cvars == <<gitlab_client, calls>>
vars == <<gitlab_token, token_file, domain, dpc, found, glab, consulted, dresult,
          client_token, client_domain, stack, retval, requests, responses,
          lookups, warnings, outcome, default_headers, gitlab_client, calls>>

\* ------------------------------------------------------------------------
\* Optional values and Python truthiness
\* ------------------------------------------------------------------------
None == <<>>
Some(v) == <<v>>
IsNone(o) == o = <<>>
Get(o) == o[1]

\* `if s:` for an Optional[str]: neither None nor the empty string
TruthyStr(o) == o # None /\ Get(o) # <<>>

\* ------------------------------------------------------------------------
\* Python string primitives on character sequences
\* ------------------------------------------------------------------------
SP == " "
NL == "\n"
Whitespace == {SP, NL, "\t"}

\* str.rstrip(): drop trailing whitespace
RECURSIVE rstrip(_)
rstrip(s) ==
    IF s = <<>> THEN <<>>
    ELSE IF s[Len(s)] \in Whitespace THEN rstrip(SubSeq(s, 1, Len(s) - 1))
    ELSE s

\* str.endswith(suffix)
endswith(s, suffix) ==
    /\ Len(suffix) <= Len(s)
    /\ SubSeq(s, Len(s) - Len(suffix) + 1, Len(s)) = suffix

\* `c in s` for a single character
contains(s, c) == \E i \in 1..Len(s) : s[i] = c

\* s.split(" ")[0]: the text before the first space (all of s if there is none)
RECURSIVE split_first(_)
split_first(s) ==
    IF s = <<>> THEN <<>>
    ELSE IF s[1] = SP THEN <<>>
    ELSE <<s[1]>> \o split_first(SubSeq(s, 2, Len(s)))

\* ------------------------------------------------------------------------
\* GitLabDomain
\* ------------------------------------------------------------------------
\* GitLabDomain.DEFAULT = 'gitlab.com', here the one-character host "g"
DEFAULT == <<"g">>

\* GitLabDomain.__init__: value or DEFAULT
GitLabDomain(value) == IF TruthyStr(value) THEN Get(value) ELSE DEFAULT

\* GitLabClient.DEFAULT_HEADERS, lines 190-194: a dict, here the set of its items
DEFAULT_HEADERS == {
    <<"Content-Type", <<"application/json">>>>,
    <<"User-Agent", <<"git-machete">>>>,
    <<"Accept", <<"application/json">>>> }

\* ------------------------------------------------------------------------
\* find_access_token_for_domain (platform.py)
\* ------------------------------------------------------------------------
\* A faulty variant: the bare-token branch is taken for every domain.
RECURSIVE find_bare_for_any_domain(_, _)
find_bare_for_any_domain(lines, d) ==
    IF lines = <<>> THEN None
    ELSE LET line == rstrip(lines[1]) IN
         IF endswith(line, <<SP>> \o d) THEN Some(split_first(line))
         ELSE IF ~contains(line, SP) THEN Some(line)
         ELSE find_bare_for_any_domain(Tail(lines), d)

\* A faulty variant: the last matching line wins instead of the first.
RECURSIVE find_last_match(_, _)
find_last_match(lines, d) ==
    IF lines = <<>> THEN None
    ELSE LET line == rstrip(lines[Len(lines)])
             front == SubSeq(lines, 1, Len(lines) - 1) IN
         IF endswith(line, <<SP>> \o d) THEN Some(split_first(line))
         ELSE IF d = DEFAULT /\ ~contains(line, SP) THEN Some(line)
         ELSE find_last_match(front, d)

\* The loop of lines 40-46; falling off the end returns None.
RECURSIVE find_loop(_, _)
find_loop(lines, d) ==
    IF lines = <<>> THEN None
    ELSE LET line == rstrip(lines[1]) IN
         IF endswith(line, <<SP>> \o d) THEN Some(split_first(line))
         ELSE IF d = DEFAULT /\ ~contains(line, SP) THEN Some(line)
         ELSE find_loop(Tail(lines), d)

find_access_token_for_domain(lines, d) == find_loop(lines, d)

\* ------------------------------------------------------------------------
\* Inputs of token discovery
\* ------------------------------------------------------------------------
MaxFileLines == 2

\* The other host that token files and configurations name ('git.example.org')
OtherHost == <<"x">>

\* Lines a ~/.gitlab-token file may hold, as f.readlines() yields them
FileLines == {
    <<>>,                           \* blank last line
    <<NL>>,                         \* blank line
    <<"a">>,                        \* bare token
    <<"b", NL>>,                    \* bare token
    <<"a", SP, NL>>,                \* bare token, trailing space
    <<"a", "g">>,                   \* bare token whose text ends like the default host
    <<"a", SP, "g">>,               \* token for the default host, named explicitly
    <<"b", SP, "g", NL>>,
    <<"a", SP, "x">>,               \* token for the other host
    <<"b", SP, "x", NL>>,
    <<"a", SP, "y", "x">>,          \* token for a host that only ends like the other host
    <<SP, "x">>,                    \* no token before the host
    <<"a", SP, "b", SP, "x">> }     \* three fields

RECURSIVE SeqsUpTo(_, _)
SeqsUpTo(S, n) ==
    IF n = 0 THEN {<<>>}
    ELSE LET shorter == SeqsUpTo(S, n - 1) IN
         shorter \cup {Append(s, x) : s \in shorter, x \in S}

TokenFiles ==
    {[state |-> "missing", lines |-> <<>>], [state |-> "unreadable", lines |-> <<>>]}
    \cup {[state |-> "readable", lines |-> ls] : ls \in SeqsUpTo(FileLines, MaxFileLines)}

EnvValues == {None, Some(<<>>), Some(<<"e">>)}

ConfiguredDomains == {None, Some(<<>>), Some(OtherHost)}

ExitCodes == {0, 1}

\* stdout of `glab --version`: whether it holds the text "glab version " and the
\* characters that follow its first occurrence
Digits == <<"0", "1", "2", "3", "4", "5", "6", "7", "8", "9">>
VersionOutputs == {
    [marker |-> TRUE,  after |-> <<"1", ".", "3", "6", ".", "0", NL>>],
    [marker |-> TRUE,  after |-> <<"1", ".", "1", "3", ".", "0", SP, "(">>],
    [marker |-> TRUE,  after |-> <<"1", ".", "1", "3", ".", "9">>],
    [marker |-> TRUE,  after |-> <<"0", ".", "9", "9", ".", "0">>],
    [marker |-> TRUE,  after |-> <<"1", ".", "1", "4", ".", "0">>],
    [marker |-> TRUE,  after |-> <<"2", ".", "0", ".", "0", NL>>],
    [marker |-> TRUE,  after |-> <<"2", "-", "0", "-", "0">>],
    [marker |-> TRUE,  after |-> <<"2", "1", "4", "0", "0">>],
    [marker |-> TRUE,  after |-> <<"1", ".", "1", "4", NL>>],
    [marker |-> FALSE, after |-> <<>>] }

\* stderr of `glab auth status --show-token`: whether it holds the text "Token: "
\* and the characters that follow it
WordChars == {"t", "k", "_"}
AuthOutputs == {
    [marker |-> TRUE,  after |-> <<"t", "k">>],
    [marker |-> TRUE,  after |-> <<"t", "-", "k">>],
    [marker |-> TRUE,  after |-> <<>>],
    [marker |-> FALSE, after |-> <<>>] }

\* ------------------------------------------------------------------------
\* GitLabToken (gitlab.py)
\* ------------------------------------------------------------------------
EnvProvider == [source |-> "GITLAB_TOKEN environment variable", domain |-> None]
FileProvider(d) == [source |-> "~/.gitlab-token", domain |-> Some(d)]
GlabProvider(d) == [source |-> "glab GitLab CLI", domain |-> Some(d)]

GitLabToken(value, provider) == [value |-> value, provider |-> provider]

\* what a call can end with
Pending == [kind |-> "pending", token |-> None, exc |-> ""]
Returned(t) == [kind |-> "return", token |-> t, exc |-> ""]
Raised(e) == [kind |-> "raise", token |-> None, exc |-> e]

\* A faulty variant: the environment is never used.
get_token_from_env_ignored(env) == None

\* __get_token_from_env, lines 46-50
get_token_from_env(env) ==
    IF TruthyStr(env) THEN Some(GitLabToken(Get(env), EnvProvider)) ELSE None

\* A faulty variant: `if token is not None` in place of `if token`.
token_from_file_accepting_empty(token, d) ==
    IF token # None THEN Some(GitLabToken(Get(token), FileProvider(d))) ELSE None

\* lines 64-69: the token found in the file, if it is a non-empty string
token_from_file(token, d) ==
    IF TruthyStr(token) THEN Some(GitLabToken(Get(token), FileProvider(d))) ELSE None

\* \d and int() on a run of digits
IsDigit(c) == \E n \in 1..10 : Digits[n] = c
DigitValue(c) == (CHOOSE n \in 1..10 : Digits[n] = c) - 1
AllDigits(s) == s # <<>> /\ \A i \in 1..Len(s) : IsDigit(s[i])

RECURSIVE int(_)
int(s) ==
    IF s = <<>> THEN 0
    ELSE 10 * int(SubSeq(s, 1, Len(s) - 1)) + DigitValue(s[Len(s)])

\* the ways (\d+).(\d+).(\d+) can match at the start of s: the positions where
\* the three groups end; `.` is any character but a newline, a digit included
version_matches(s) ==
    {m \in (1..Len(s)) \X (1..Len(s)) \X (1..Len(s)) :
        /\ m[1] + 2 <= m[2] /\ m[2] + 2 <= m[3]
        /\ AllDigits(SubSeq(s, 1, m[1]))
        /\ s[m[1] + 1] # NL
        /\ AllDigits(SubSeq(s, m[1] + 2, m[2]))
        /\ s[m[2] + 1] # NL
        /\ AllDigits(SubSeq(s, m[2] + 2, m[3]))}

\* the match the regex engine reports: every group as long as the rest allows,
\* the earlier group first
greedy_match(s) ==
    LET ms == version_matches(s)
        e1 == CHOOSE i \in {m[1] : m \in ms} : \A m \in ms : m[1] <= i
        ms1 == {m \in ms : m[1] = e1}
        e2 == CHOOSE j \in {m[2] : m \in ms1} : \A m \in ms1 : m[2] <= j
        ms2 == {m \in ms1 : m[2] = e2}
        e3 == CHOOSE k \in {m[3] : m \in ms2} : \A m \in ms2 : m[3] <= k
    IN <<int(SubSeq(s, 1, e1)), int(SubSeq(s, e1 + 2, e2)), int(SubSeq(s, e2 + 2, e3))>>

\* A faulty variant: an output without a version triple counts as version 0.0.0.
glab_version_match_lenient(out) ==
    IF out.marker /\ version_matches(out.after) # {}
    THEN Some(greedy_match(out.after))
    ELSE Some(<<0, 0, 0>>)

\* re.search(r"glab version (\d+).(\d+).(\d+)", stdout), line 87, and the int()
\* of its groups, line 91: the triple, or None
glab_version_match(out) ==
    IF out.marker /\ version_matches(out.after) # {}
    THEN Some(greedy_match(out.after))
    ELSE None

\* A faulty variant: only the major version is compared.
version_below_minimum_by_major(v) == v[1] < 1

\* tuple comparison glab_version < (1, 14, 0), line 95
version_below_minimum(v) ==
    \/ v[1] < 1
    \/ v[1] = 1 /\ v[2] < 14
    \/ v[1] = 1 /\ v[2] = 14 /\ v[3] < 0

\* A faulty variant: the exit code of the version probe is not looked at.
version_gate_ignoring_returncode(rc, out) ==
    LET m == glab_version_match(out) IN
    IF m = None THEN "raise"
    ELSE IF version_below_minimum(Get(m)) THEN "none"
    ELSE "auth"

\* lines 80-98: what follows the version probe - "none" (return None), "raise"
\* (UnexpectedMacheteException) or "auth" (go on to the auth-status probe)
version_gate(rc, out) ==
    LET m == glab_version_match(out) IN
    IF rc # 0 THEN "none"
    ELSE IF m = None THEN "raise"
    ELSE IF version_below_minimum(Get(m)) THEN "none"
    ELSE "auth"

\* the longest run of word characters at the start of s
RECURSIVE word_prefix(_)
word_prefix(s) ==
    IF s = <<>> \/ s[1] \notin WordChars THEN <<>>
    ELSE <<s[1]>> \o word_prefix(Tail(s))

\* re.search(r"Token: (\w+)", stderr): the captured group, or None
glab_token_match(err) ==
    IF err.marker /\ word_prefix(err.after) # <<>>
    THEN Some(word_prefix(err.after)) ELSE None

NoGlab == [which |-> None, version |-> None, auth |-> None]

\* ------------------------------------------------------------------------
\* for_domain, one action per source query (lines 38-41)
\* ------------------------------------------------------------------------
\* no client has been constructed
NoClient == [domain |-> DEFAULT, project |-> None, token |-> None]
ClientIdle == gitlab_client = NoClient /\ calls = <<>>

ExecutorIdle ==
    /\ client_token = None
    /\ client_domain = DEFAULT
    /\ stack = <<>>
    /\ retval = None
    /\ requests = <<>>
    /\ responses = <<>>
    /\ lookups = <<>>
    /\ warnings = <<>>
    /\ outcome = [kind |-> "idle"]
    /\ default_headers = DEFAULT_HEADERS

InitToken ==
    /\ gitlab_token \in EnvValues
    /\ token_file \in TokenFiles
    /\ domain \in {GitLabDomain(c) : c \in ConfiguredDomains}
    /\ dpc = "env"
    /\ found = None
    /\ glab = NoGlab
    /\ consulted = <<>>
    /\ dresult = Pending
    /\ ExecutorIdle
    /\ ClientIdle

\* cls.__get_token_from_env()
GetTokenFromEnv ==
    /\ dpc = "env"
    /\ consulted' = Append(consulted, "env")
    /\ LET t == get_token_from_env(gitlab_token) IN
       IF t # None
       THEN dpc' = "done" /\ dresult' = Returned(t)
       ELSE dpc' = "file" /\ dresult' = dresult
    /\ UNCHANGED <<gitlab_token, token_file, domain, found, glab>>
    /\ UNCHANGED evars
    /\ UNCHANGED cvars

\* cls.__get_token_from_file_in_home_directory(domain)
GetTokenFromFile ==
    /\ dpc = "file"
    /\ consulted' = Append(consulted, "file")
    /\ CASE token_file.state = "missing" ->
              \* except FileNotFoundError: return None
              dpc' = "which" /\ found' = found /\ dresult' = dresult
         [] token_file.state = "unreadable" ->
              \* open() raises another OSError, which nothing here catches
              dpc' = "done" /\ found' = found /\ dresult' = Raised("PermissionError")
         [] token_file.state = "readable" ->
              LET token == find_access_token_for_domain(token_file.lines, domain)
                  t == token_from_file(token, domain) IN
              /\ found' = Some(token)
              /\ IF t # None
                 THEN dpc' = "done" /\ dresult' = Returned(t)
                 ELSE dpc' = "which" /\ dresult' = dresult
    /\ UNCHANGED <<gitlab_token, token_file, domain, glab>>
    /\ UNCHANGED evars
    /\ UNCHANGED cvars

\* shutil.which('glab'), lines 75-77
GlabWhich ==
    /\ dpc = "which"
    /\ consulted' = Append(consulted, "glab")
    /\ \E w \in {None, Some("/path/to/glab")} :
         /\ glab' = [glab EXCEPT !.which = Some(w)]
         /\ IF w = None
            THEN dpc' = "done" /\ dresult' = Returned(None)
            ELSE dpc' = "version" /\ dresult' = dresult
    /\ UNCHANGED <<gitlab_token, token_file, domain, found>>
    /\ UNCHANGED evars
    /\ UNCHANGED cvars

\* popen_cmd(glab, "--version") and the version gate, lines 79-98
GlabVersion ==
    /\ dpc = "version"
    /\ \E rc \in ExitCodes, out \in VersionOutputs :
         /\ glab' = [glab EXCEPT !.version = Some([rc |-> rc, stdout |-> out])]
         /\ LET gate == version_gate(rc, out) IN
            CASE gate = "none" -> dpc' = "done" /\ dresult' = Returned(None)
              [] gate = "raise" ->
                   dpc' = "done" /\ dresult' = Raised("UnexpectedMacheteException")
              [] gate = "auth" -> dpc' = "auth" /\ dresult' = dresult
    /\ UNCHANGED <<gitlab_token, token_file, domain, found, consulted>>
    /\ UNCHANGED evars
    /\ UNCHANGED cvars

\* popen_cmd(glab, "auth", "status", "--hostname", domain, "--show-token"), lines 100-119
GlabAuthStatus ==
    /\ dpc = "auth"
    /\ \E rc \in ExitCodes, err \in AuthOutputs :
         /\ glab' = [glab EXCEPT !.auth = Some([rc |-> rc, stderr |-> err, hostname |-> domain])]
         /\ dpc' = "done"
         /\ LET m == glab_token_match(err) IN
            IF rc # 0
            THEN dresult' = Returned(None)
            ELSE IF m # None
            THEN dresult' = Returned(Some(GitLabToken(Get(m), GlabProvider(domain))))
            ELSE dresult' = Returned(None)
    /\ UNCHANGED <<gitlab_token, token_file, domain, found, consulted>>
    /\ UNCHANGED evars
    /\ UNCHANGED cvars

NextToken ==
    \/ GetTokenFromEnv
    \/ GetTokenFromFile
    \/ GlabWhich
    \/ GlabVersion
    \/ GlabAuthStatus

SpecToken == InitToken /\ [][NextToken]_vars

\* ------------------------------------------------------------------------
\* Inputs of the request executor
\* ------------------------------------------------------------------------
MaxRequests == 4

Methods == {"GET", "POST"}

\* A path is the sequence of its segments: /user is <<"user">>.
GraphqlPath == <<"graphql">>

\* request_body: None or a JSON object
Calls == {
    [method |-> "GET",  path |-> <<"user">>, body |-> None],
    [method |-> "POST", path |-> <<"projects", "1", "merge_requests">>,
     body |-> Some("merge request")],
    [method |-> "POST", path |-> GraphqlPath, body |-> Some("query")] }

ClientTokens == {None, Some(GitLabToken(<<"t", "k">>, EnvProvider))}
ClientDomains == {DEFAULT, OtherHost}

\* parsed JSON payloads: a list of items or an object; `shape` "none" is no payload
NoPayload == [shape |-> "none", items |-> <<>>]
List(items) == [shape |-> "list", items |-> items]
Object(items) == [shape |-> "object", items |-> items]

\* what the server may put into the answer to the n-th request of a call
PayloadsOf(n) == {List(<<>>), List(<<n>>), Object(<<n>>)}

PageNames == <<"page=2", "page=3", "page=4", "page=5", "page=6">>
NextPagePathOf(n) == <<"items", PageNames[n]>>

\* the API root a URL starts with, https://<host>/<root>, the root as its segments
UrlPrefix(host, root) == [host |-> host, root |-> root]
RestRoot == <<"api", "v4">>
ForeignHost == <<"f">>

\* the Link header: None, or one <https://host/segs>; rel="..." entry. The server
\* names the next page under the root the request went to, under the REST root,
\* or on another host.
Link(host, segs, rel) == [host |-> host, segs |-> segs, rel |-> rel]
LinksOf(n, prefix) == {
    None,
    Some(Link(prefix.host, prefix.root \o NextPagePathOf(n), "next")),
    Some(Link(prefix.host, prefix.root \o NextPagePathOf(n), "prev")),
    Some(Link(prefix.host, RestRoot \o NextPagePathOf(n), "next")),
    Some(Link(ForeignHost, RestRoot \o NextPagePathOf(n), "next")) }

\* bodies of 422 answers; a key that is absent is None
ValidationFailed == "Validation Failed"
ErrorEntries == {
    [message |-> Some("A"), code |-> "custom"],
    [message |-> Some("B"), code |-> "custom"],
    [message |-> None, code |-> "missing_field"] }
Bodies422 == {
    [message |-> Some(ValidationFailed),
     errors |-> Some(<<[message |-> Some("A"), code |-> "custom"],
                       [message |-> Some("B"), code |-> "custom"]>>)],
    [message |-> Some(ValidationFailed),
     errors |-> Some(<<[message |-> Some("B"), code |-> "custom"],
                       [message |-> None, code |-> "missing_field"]>>)],
    [message |-> Some(ValidationFailed), errors |-> None],
    [message |-> Some("Other"), errors |-> None],
    [message |-> None, errors |-> Some(<<[message |-> Some("A"), code |-> "custom"]>>)] }
NoBody == [message |-> None, errors |-> None]

\* Location headers of 307 answers: scheme, host and path segments
DigitStrings == {"42"}
Locations == {
    None,
    Some([scheme |-> "https", host |-> "api.github.com",
          segs |-> <<"repositories", "42", "pulls">>]),
    Some([scheme |-> "https", host |-> "api.github.com",
          segs |-> <<"repos", "new-org", "repo", "pulls">>]),
    Some([scheme |-> "https", host |-> "api.github.com",
          segs |-> <<"repositories", "42">>]),
    Some([scheme |-> "http", host |-> "api.github.com",
          segs |-> <<"repositories", "42", "pulls">>]) }

Response(status, reason, payload, link, body, location) ==
    [status |-> status, reason |-> reason, payload |-> payload, link |-> link,
     body |-> body, location |-> location]

\* status 0 stands for a transport failure (urlopen raises an OSError that is no HTTPError)
ResponsesOf(n, prefix) ==
    {Response(200, "OK", p, l, NoBody, None) : p \in PayloadsOf(n), l \in LinksOf(n, prefix)}
    \cup {Response(422, "Unprocessable Entity", NoPayload, None, b, None) : b \in Bodies422}
    \cup {Response(401, "Unauthorized", NoPayload, None, NoBody, None),
          Response(403, "Forbidden", NoPayload, None, NoBody, None),
          Response(404, "Not Found", NoPayload, None, NoBody, None),
          Response(400, "Bad Request", NoPayload, None, NoBody, None),
          Response(500, "Internal Server Error", NoPayload, None, NoBody, None),
          Response(0, "connection refused", NoPayload, None, NoBody, None)}
    \cup {Response(307, "Temporary Redirect", NoPayload, None, NoBody, loc) : loc \in Locations}

\* ------------------------------------------------------------------------
\* GitLabDomain.url_prefix_for and GitLabClient.DEFAULT_HEADERS (gitlab.py)
\* ------------------------------------------------------------------------
\* A faulty variant: the REST root for every path.
url_prefix_for_rest_only(d, path) == UrlPrefix(d, <<"api", "v4">>)

\* lines 20-21
url_prefix_for(d, path) ==
    UrlPrefix(d, IF path = GraphqlPath THEN <<"api">> ELSE <<"api", "v4">>)

\* ------------------------------------------------------------------------
\* PlatformClient.__fire_api_request (platform.py), its pure parts
\* ------------------------------------------------------------------------
\* lines 86-88
\* copy.copy of a dict: another dict with the same items
copy(table) == table

\* headers['Authorization'] = 'Bearer ' + value on a dict
with_authorization(table, value) ==
    {h \in table : h[1] # "Authorization"} \cup {<<"Authorization", <<"Bearer ", value>>>>}

\* A faulty variant: no Authorization header is set.
build_headers_without_authorization(token) == copy(default_headers)

build_headers(token) ==
    IF token # None
    THEN with_authorization(copy(default_headers), Get(token).value)
    ELSE copy(default_headers)

\* A faulty variant: `headers` is the class table itself, not a copy of it.
default_headers_written_through(table, token) ==
    IF token # None THEN with_authorization(table, Get(token).value) ELSE table

\* lines 86-88: what the class table holds afterwards; the Authorization item is
\* set on the copy, the table is only read
default_headers_after(table, token) == table

\* lines 90-94: the urllib request
build_request(method, path, body, token, d) ==
    [method |-> method,
     url |-> [prefix |-> url_prefix_for(d, path), path |-> path],
     headers |-> build_headers(token),
     data |-> body]

\* lines 104-109: re.search(f'<{url_prefix_regex}(/[^>]+)>; rel="next"', link_header),
\* the captured path: what follows url_prefix in a rel="next" URL that starts with it
next_page_path(link, url_prefix) ==
    IF /\ link # None
       /\ Get(link).rel = "next"
       /\ Get(link).host = url_prefix.host
       /\ Len(Get(link).segs) > Len(url_prefix.root)
       /\ SubSeq(Get(link).segs, 1, Len(url_prefix.root)) = url_prefix.root
    THEN Some(SubSeq(Get(link).segs, Len(url_prefix.root) + 1, Len(Get(link).segs)))
    ELSE None

\* A faulty variant: the pages are concatenated in reverse.
concat_pages_reversed(parsed, rest) ==
    IF parsed.shape = "list" /\ rest.shape = "list"
    THEN Some(List(rest.items \o parsed.items)) ELSE None

\* line 111: parsed_response_body + <the rest>; Python defines + for two lists
\* and raises TypeError for an object on either side (None here)
concat_pages(parsed, rest) ==
    IF parsed.shape = "list" /\ rest.shape = "list"
    THEN Some(List(parsed.items \o rest.items)) ELSE None

\* the text of a validation error: a sequence of lines, each a literal message or
\* the textual form str(x) of a JSON value x
Literal(s) == [lit |-> s, repr |-> None]
StrOf(x) == [lit |-> "", repr |-> Some(x)]

RECURSIVE error_lines(_)
error_lines(errors) ==
    IF errors = <<>> THEN <<>>
    ELSE LET error == errors[1] IN
         <<IF error.message # None /\ Get(error.message) # ""
           THEN Literal(Get(error.message)) ELSE StrOf(error)>>
         \o error_lines(Tail(errors))

\* __extract_failure_info_from_422, lines 69-83; None stands for the KeyError that
\* response['message'] raises when the body has no such key
extract_failure_info_from_422(response) ==
    IF response.message = None THEN None
    ELSE IF Get(response.message) # ValidationFailed
    THEN Some(<<Literal(Get(response.message))>>)
    ELSE LET ret == IF response.errors # None /\ Get(response.errors) # <<>>
                    THEN error_lines(Get(response.errors)) ELSE <<>> IN
         IF ret # <<>> THEN Some(ret) ELSE Some(<<StrOf(response)>>)

\* messages of the exceptions the executor raises
NoMessage ==
    [template |-> "", code |-> 0, reason |-> "", provider |-> None, method |-> "",
     url |-> None, domain |-> None, providers |-> "", last_line |-> FALSE,
     text |-> <<>>, location |-> None]

\* GitLabToken.get_possible_providers, gitlab.py lines 122-125
get_possible_providers == "env variable, ~/.gitlab-token, glab"

\* A faulty variant: the message variant does not follow token presence.
auth_error_message_always_no_token(token, code, reason, method, url, d) ==
    [NoMessage EXCEPT !.template = "provide a token with repo access",
                      !.code = code, !.reason = reason,
                      !.domain = Some(d), !.last_line = TRUE]

\* lines 121-132
auth_error_message(token, code, reason, method, url, d) ==
    IF token # None
    THEN [NoMessage EXCEPT !.template = "make sure the token is valid",
                           !.code = code, !.reason = reason,
                           !.provider = Some(Get(token).provider),
                           !.method = method, !.url = Some(url),
                           !.last_line = TRUE]
    ELSE [NoMessage EXCEPT !.template = "provide a token with repo access",
                           !.code = code, !.reason = reason,
                           !.domain = Some(d), !.last_line = TRUE]

\* lines 135-138, once self.__token.get_possible_providers() has been evaluated
not_found_message(method, url, d) ==
    [NoMessage EXCEPT !.template = "404, a valid token is required",
                      !.method = method, !.url = Some(url),
                      !.providers = get_possible_providers, !.domain = Some(d)]

\* A faulty variant: the id need not be followed by a slash.
repository_id_without_slash(loc) ==
    LET hits == {i \in 1..(Len(loc.segs) - 1) :
                    loc.segs[i] = "repositories" /\ loc.segs[i + 1] \in DigitStrings}
    IN IF hits = {} THEN None
       ELSE Some(loc.segs[CHOOSE i \in hits : \A j \in hits : i <= j])

\* line 148: re.search('/repositories/([0-9]+)/', location), the captured id
repository_id(loc) ==
    LET hits == {i \in 1..(Len(loc.segs) - 2) :
                    loc.segs[i] = "repositories" /\ loc.segs[i + 1] \in DigitStrings}
    IN IF hits = {} THEN None
       ELSE Some(loc.segs[CHOOSE i \in hits : \A j \in hits : i <= j])

\* A faulty variant: the Location is used as the path unchanged.
location_as_path(loc) == <<loc.scheme, loc.host>> \o loc.segs

\* line 159: re.sub("https://[^/]+", "", location)
strip_scheme_and_host(loc) ==
    IF loc.scheme = "https" /\ loc.host # ""
    THEN loc.segs
    ELSE <<loc.scheme, loc.host>> \o loc.segs

\* get_org_and_repo_names_by_id: the new "organization/repository" name of a
\* repository id, as its two parts
get_org_and_repo_names_by_id(id) == <<"example-org", "example-repo">>

\* A faulty variant: the message leaves out the reason phrase.
unexpected_status_message_without_reason(code, reason) ==
    [NoMessage EXCEPT !.template = "unexpected status", !.code = code]

\* line 168: the message of the error raised for any other status
unexpected_status_message(code, reason) ==
    [NoMessage EXCEPT !.template = "unexpected status", !.code = code, !.reason = reason]

\* what handling one answer leads to
Step(do, value, exc, msg, path, repo) ==
    [do |-> do, value |-> value, exc |-> exc, msg |-> msg, path |-> path, repo |-> repo]
StepReturn(v) == Step("return", v, "", NoMessage, <<>>, <<>>)
StepRaise(exc, msg) == Step("raise", NoPayload, exc, msg, <<>>, <<>>)
StepNextPage(parsed, path) == Step("next_page", parsed, "", NoMessage, path, <<>>)
StepRetry(path, repo) == Step("retry", NoPayload, "", NoMessage, path, repo)

\* lines 98-170: what the body of __fire_api_request does with the answer
handle_response(req, resp, token, d) ==
    LET method == req.method
        url == req.url IN
    CASE resp.status = 200 ->
           LET next == next_page_path(resp.link, url.prefix) IN
           IF next # None THEN StepNextPage(resp.payload, Get(next))
           ELSE StepReturn(resp.payload)
      [] resp.status = 422 ->
           LET error_reason == extract_failure_info_from_422(resp.body) IN
           IF error_reason = None THEN StepRaise("KeyError", NoMessage)
           ELSE StepRaise("UnprocessableEntityHTTPError",
                          [NoMessage EXCEPT !.text = Get(error_reason)])
      [] resp.status \in {401, 403} ->
           StepRaise("MacheteException",
                     auth_error_message(token, resp.status, resp.reason, method, url, d))
      [] resp.status = 404 ->
           \* self.__token.get_possible_providers() on a None token
           IF token = None THEN StepRaise("AttributeError", NoMessage)
           ELSE StepRaise("MacheteException", not_found_message(method, url, d))
      [] resp.status = 307 ->
           IF resp.location = None
           THEN StepRaise("UnexpectedMacheteException",
                          [NoMessage EXCEPT !.template = "307 without Location",
                                            !.code = resp.status, !.reason = resp.reason])
           ELSE LET id == repository_id(Get(resp.location)) IN
                IF id = None
                THEN StepRaise("UnexpectedMacheteException",
                               [NoMessage EXCEPT !.template = "could not extract org and repo",
                                                 !.location = resp.location])
                ELSE StepRetry(strip_scheme_and_host(Get(resp.location)),
                               get_org_and_repo_names_by_id(Get(id)))
      [] resp.status = 0 ->
           StepRaise("MacheteException",
                     [NoMessage EXCEPT !.template = "could not connect",
                                       !.url = Some([prefix |-> url.prefix, path |-> <<>>])])
      [] OTHER ->
           StepRaise("UnexpectedMacheteException",
                     unexpected_status_message(resp.status, resp.reason))

\* ------------------------------------------------------------------------
\* The executor as a state machine
\* ------------------------------------------------------------------------
NotCalled == [kind |-> "idle", value |-> NoPayload, exc |-> "", msg |-> NoMessage]
Running == [kind |-> "pending", value |-> NoPayload, exc |-> "", msg |-> NoMessage]
CallReturned(v) == [kind |-> "return", value |-> v, exc |-> "", msg |-> NoMessage]
CallRaised(exc, msg) == [kind |-> "raise", value |-> NoPayload, exc |-> exc, msg |-> msg]

NoRedirect == [code |-> 0, reason |-> "", new_org_and_repo |-> <<>>]

\* one activation of __fire_api_request: its arguments, where it stands (about to
\* fire, or waiting for the recursive call of line 111 or of line 160) and the
\* locals it needs afterwards
Frame(method, path, body) ==
    [method |-> method, path |-> path, request_body |-> body, at |-> "fire",
     parsed_response_body |-> NoPayload, redirect |-> NoRedirect]

DiscoveryIdle ==
    /\ gitlab_token = None
    /\ token_file = [state |-> "missing", lines |-> <<>>]
    /\ domain = DEFAULT
    /\ dpc = "done"
    /\ found = None
    /\ glab = NoGlab
    /\ consulted = <<>>
    /\ dresult = Pending

Init ==
    /\ client_token \in ClientTokens
    /\ client_domain \in ClientDomains
    /\ stack = <<>>
    /\ retval = None
    /\ requests = <<>>
    /\ responses = <<>>
    /\ lookups = <<>>
    /\ warnings = <<>>
    /\ outcome = NotCalled
    /\ default_headers = DEFAULT_HEADERS
    /\ DiscoveryIdle
    /\ ClientIdle

\* a client operation enters the executor
FireApiRequest ==
    /\ outcome.kind = "idle"
    /\ \E c \in Calls :
         stack' = <<Frame(c.method, c.path, c.body)>>
    /\ outcome' = Running
    /\ UNCHANGED <<client_token, client_domain, retval, requests, responses,
                   lookups, warnings, default_headers>>
    /\ UNCHANGED dvars
    /\ UNCHANGED cvars

\* the frame on top returns v to its caller
ReturnValue(v) ==
    IF Len(stack) = 1
    THEN stack' = <<>> /\ retval' = None /\ outcome' = CallReturned(v)
    ELSE stack' = Tail(stack) /\ retval' = Some(v) /\ outcome' = outcome

\* A faulty variant: an error ends the call as if it had returned nothing.
RaiseError_swallowed(exc, msg) ==
    stack' = <<>> /\ retval' = None /\ outcome' = CallReturned(NoPayload)

\* A faulty variant: an error ends the call with the first page fetched so far.
RaiseError_returning_partial(exc, msg) ==
    /\ stack' = <<>>
    /\ retval' = None
    /\ outcome' = IF stack[Len(stack)].at = "next_page"
                  THEN CallReturned(stack[Len(stack)].parsed_response_body)
                  ELSE CallRaised(exc, msg)

\* an exception leaves every active frame: no frame catches what a nested call raises
RaiseError(exc, msg) ==
    stack' = <<>> /\ retval' = None /\ outcome' = CallRaised(exc, msg)

\* lines 86-170 up to the next recursive call: build and fire the request, take
\* the server's answer and act on it
SendRequest ==
    /\ stack # <<>>
    /\ stack[1].at = "fire"
    /\ Len(requests) < MaxRequests
    /\ LET f == stack[1]
           req == build_request(f.method, f.path, f.request_body, client_token, client_domain)
       IN \E resp \in ResponsesOf(Len(requests) + 1, req.url.prefix) :
            LET step == handle_response(req, resp, client_token, client_domain) IN
            /\ requests' = Append(requests, req)
            /\ responses' = Append(responses, resp)
            /\ CASE step.do = "return" ->
                      /\ ReturnValue(step.value)
                      /\ lookups' = lookups
                 [] step.do = "raise" ->
                      /\ RaiseError(step.exc, step.msg)
                      /\ lookups' = lookups
                 [] step.do = "next_page" ->
                      /\ stack' = <<Frame(f.method, step.path, f.request_body)>>
                                  \o <<[f EXCEPT !.at = "next_page",
                                                 !.parsed_response_body = step.value]>>
                                  \o Tail(stack)
                      /\ retval' = None
                      /\ outcome' = outcome
                      /\ lookups' = lookups
                 [] step.do = "retry" ->
                      /\ lookups' = Append(lookups, Get(repository_id(Get(resp.location))))
                      /\ stack' = <<Frame(f.method, step.path, f.request_body)>>
                                  \o <<[f EXCEPT !.at = "retry",
                                                 !.redirect = [code |-> resp.status,
                                                               reason |-> resp.reason,
                                                               new_org_and_repo |-> step.repo]]>>
                                  \o Tail(stack)
                      /\ retval' = None
                      /\ outcome' = outcome
    /\ default_headers' = default_headers_after(default_headers, client_token)
    /\ UNCHANGED <<client_token, client_domain, warnings>>
    /\ UNCHANGED dvars
    /\ UNCHANGED cvars

\* line 111, after the recursive call has returned: parsed_response_body + <result>
ReturnPages ==
    /\ stack # <<>>
    /\ stack[1].at = "next_page"
    /\ retval # None
    /\ LET sum == concat_pages(stack[1].parsed_response_body, Get(retval)) IN
       IF sum # None THEN ReturnValue(Get(sum))
       ELSE RaiseError("TypeError", NoMessage)
    /\ UNCHANGED <<client_token, client_domain, requests, responses, lookups, warnings,
                   default_headers>>
    /\ UNCHANGED dvars
    /\ UNCHANGED cvars

\* lines 161-166, after the retried call has returned: warn and return its result
ReturnRetried ==
    /\ stack # <<>>
    /\ stack[1].at = "retry"
    /\ retval # None
    /\ warnings' = Append(warnings,
                          [code |-> stack[1].redirect.code,
                           reason |-> stack[1].redirect.reason,
                           organization |-> stack[1].redirect.new_org_and_repo[1],
                           repository |-> stack[1].redirect.new_org_and_repo[2]])
    /\ ReturnValue(Get(retval))
    /\ UNCHANGED <<client_token, client_domain, requests, responses, lookups,
                   default_headers>>
    /\ UNCHANGED dvars
    /\ UNCHANGED cvars

Next ==
    \/ FireApiRequest
    \/ SendRequest
    \/ ReturnPages
    \/ ReturnRetried

Spec == Init /\ [][Next]_vars

\* ------------------------------------------------------------------------
\* Project and GitLabClient (gitlab.py)
\* ------------------------------------------------------------------------
MaxCalls == 2

\* Project(id, path, namespace); id and path are Optional strings, a Namespace
\* is its full_path, a string
Project(id, path, namespace) == [id |-> id, path |-> path, namespace |-> namespace]
Projects ==
    {Project(id, path, namespace) :
        id \in {None, Some(<<>>), Some(<<"7">>)},
        path \in {None, Some(<<>>), Some(<<"p">>)},
        namespace \in {None, Some(<<>>), Some(<<"a", "/", "b">>)}}

\* Project.path_with_namespace, line 176: f'{namespace.full_path}/{path}'; a
\* Namespace is a non-empty tuple and so counts as true whenever it is present
path_with_namespace(project) ==
    IF project.namespace # None /\ TruthyStr(project.path)
    THEN Some(Get(project.namespace) \o <<"/">> \o Get(project.path))
    ELSE None

\* the characters quote() leaves alone, of those the projects are written with
Unreserved == {"a", "b", "p", "7"}

\* quote() on one character
percent_encode(c) ==
    IF c \in Unreserved THEN <<c>>
    ELSE CASE c = "/" -> <<"%", "2", "F">>
           [] c = SP -> <<"%", "2", "0">>

\* urllib.parse.quote(s, safe=''), line 184
RECURSIVE quote(_)
quote(s) ==
    IF s = <<>> THEN <<>> ELSE percent_encode(s[1]) \o quote(Tail(s))

\* A faulty variant: the namespaced path is preferred to the id.
uri_param_preferring_path(project) ==
    IF path_with_namespace(project) # None
    THEN Some(quote(Get(path_with_namespace(project))))
    ELSE IF TruthyStr(project.id) THEN project.id
    ELSE None

\* Project.uri_param, lines 178-186; None stands for the UnexpectedMacheteException
uri_param(project) ==
    IF TruthyStr(project.id) THEN Some(Get(project.id))
    ELSE IF TruthyStr(path_with_namespace(project))
    THEN Some(quote(Get(path_with_namespace(project))))
    ELSE None

\* Attribute names. Inside a class body a name with two leading underscores is
\* rewritten to _<class>__<name>; Private(cls, name) is that rewritten name.
Private(cls, name) == [cls |-> cls, name |-> name]
Public(name) == [cls |-> "", name |-> name]

\* what an instance of GitLabClient has: the attributes __init__ sets (lines
\* 197-199), the names of its class body (lines 190-228) and those it inherits
\* from PlatformClient (platform.py lines 63-185)
Attributes ==
    {Private("GitLabClient", "domain"), Private("GitLabClient", "project"),
     Private("GitLabClient", "token"),
     Public("DEFAULT_HEADERS"), Public("get_current_user_login"),
     Public("create_merge_request"),
     Private("PlatformClient", "extract_failure_info_from_422"),
     Private("PlatformClient", "fire_api_request"),
     Private("PlatformClient", "fire_graphql_api_request")}

\* how an operation of the client ends: it returns, it raises, or it enters the
\* executor with a request
OpReturned(v) == [kind |-> "return", value |-> v, exc |-> "", msg |-> "", request |-> None]
OpRaised(exc, msg) == [kind |-> "raise", value |-> None, exc |-> exc, msg |-> msg, request |-> None]
OpFired(method, path, body) ==
    [kind |-> "fire", value |-> None, exc |-> "", msg |-> "",
     request |-> Some([method |-> method, path |-> path, body |-> body])]

MergeRequests ==
    [head : {"feature"}, base : {"main"}, title : {"T"}, description : {"D"},
     is_draft : BOOLEAN]

\* the `title` of the request body, line 225
merge_request_title(mr) ==
    IF ~mr.is_draft THEN <<mr.title>> ELSE <<"[Draft] ", mr.title>>

\* GitLabClient.create_merge_request, lines 209-228. self.__fire_api_request is
\* looked up (as _GitLabClient__fire_api_request) before its arguments, and with
\* them uri_param(), are evaluated.
create_merge_request(self, mr) ==
    IF self.token = None
    THEN OpRaised("UnexpectedMacheteException", "cannot create a merge request without a token")
    ELSE IF Private("GitLabClient", "fire_api_request") \notin Attributes
    THEN OpRaised("AttributeError", "_GitLabClient__fire_api_request")
    ELSE IF uri_param(Get(self.project)) = None
    THEN OpRaised("UnexpectedMacheteException", "cannot generate a URL param")
    ELSE OpFired("POST",
                 [collection |-> "projects", project |-> uri_param(Get(self.project)),
                  leaf |-> "merge_requests"],
                 [source_branch |-> mr.head, target_branch |-> mr.base,
                  title |-> merge_request_title(mr), description |-> mr.description])

\* GitLabClient.get_current_user_login, lines 201-207
get_current_user_login(self) ==
    IF self.token = None THEN OpReturned(None)
    ELSE IF Private("GitLabClient", "fire_api_request") \notin Attributes
    THEN OpRaised("AttributeError", "_GitLabClient__fire_api_request")
    ELSE OpFired("GET", [collection |-> "user", project |-> None, leaf |-> ""], None)

\* what the environment of a client under construction may hold
ClientEnvValues == {None, Some(<<"e">>)}
ClientTokenFiles ==
    {[state |-> "missing", lines |-> <<>>],
     [state |-> "unreadable", lines |-> <<>>],
     [state |-> "readable", lines |-> << <<"a", SP, "x">> >>]}

\* GitLabClient.__init__, lines 197-199: domain and project are stored and
\* GitLabToken.for_domain(domain) is about to run
InitClient ==
    /\ \E d \in ClientDomains, p \in Projects :
         /\ gitlab_client = [domain |-> d, project |-> Some(p), token |-> None]
         /\ domain = d
    /\ gitlab_token \in ClientEnvValues
    /\ token_file \in ClientTokenFiles
    /\ dpc = "env"
    /\ found = None
    /\ glab = NoGlab
    /\ consulted = <<>>
    /\ dresult = Pending
    /\ calls = <<>>
    /\ ExecutorIdle

\* line 199: for_domain has returned and its result is stored in self.__token;
\* an exception of for_domain leaves __init__ and no client comes into being
StoreToken ==
    /\ dpc = "done"
    /\ dresult.kind = "return"
    /\ dpc' = "constructed"
    /\ gitlab_client' = [gitlab_client EXCEPT !.token = dresult.token]
    /\ UNCHANGED <<gitlab_token, token_file, domain, found, glab, consulted, dresult>>
    /\ UNCHANGED calls
    /\ UNCHANGED evars

\* a call on the constructed client, as the history keeps it: the operation, the
\* token the client holds when it is called, and how it ended
Call(op, is_draft, result) ==
    [op |-> op, is_draft |-> is_draft, token |-> gitlab_client.token, result |-> result]

\* An operation is called and ends. Neither operation gets as far as the
\* executor, so no request is fired on behalf of a GitLabClient.
CreateMergeRequest ==
    /\ dpc = "constructed"
    /\ Len(calls) < MaxCalls
    /\ \E mr \in MergeRequests :
         calls' = Append(calls, Call("create_merge_request", mr.is_draft,
                                     create_merge_request(gitlab_client, mr)))
    /\ UNCHANGED <<gitlab_client>>
    /\ UNCHANGED evars
    /\ UNCHANGED dvars

GetCurrentUserLogin ==
    /\ dpc = "constructed"
    /\ Len(calls) < MaxCalls
    /\ calls' = Append(calls, Call("get_current_user_login", FALSE,
                                   get_current_user_login(gitlab_client)))
    /\ UNCHANGED <<gitlab_client>>
    /\ UNCHANGED evars
    /\ UNCHANGED dvars

\* Project.uri_param() is called on the project of the client
UriParam ==
    /\ dpc = "constructed"
    /\ Len(calls) < MaxCalls
    /\ LET param == uri_param(Get(gitlab_client.project)) IN
       calls' = Append(calls, Call("uri_param", FALSE,
                    IF param = None
                    THEN OpRaised("UnexpectedMacheteException", "cannot generate a URL param")
                    ELSE OpReturned(param)))
    /\ UNCHANGED <<gitlab_client>>
    /\ UNCHANGED evars
    /\ UNCHANGED dvars

NextClient ==
    \/ GetTokenFromEnv
    \/ GetTokenFromFile
    \/ GlabWhich
    \/ GlabVersion
    \/ GlabAuthStatus
    \/ StoreToken
    \/ CreateMergeRequest
    \/ GetCurrentUserLogin
    \/ UriParam

SpecClient == InitClient /\ [][NextClient]_vars

\* ------------------------------------------------------------------------
\* Token-file matching, stated without the loop
\* ------------------------------------------------------------------------
\* the line without its trailing whitespace
Trimmed(l) ==
    LET keep == {k \in 1..Len(l) : l[k] \notin Whitespace}
        last == IF keep = {} THEN 0 ELSE CHOOSE k \in keep : \A j \in keep : j <= k
    IN SubSeq(l, 1, last)

\* the trimmed line is `T D`: some text, one space, the host d
NamesHost(l, d) ==
    LET t == Trimmed(l) IN
    \E k \in 0..Len(t) : t = SubSeq(t, 1, k) \o <<SP>> \o d

\* the trimmed line is a bare `T`: it holds no space
IsBare(l) == \A k \in 1..Len(Trimmed(l)) : Trimmed(l)[k] # SP

LineMatches(l, d) == NamesHost(l, d) \/ (d = DEFAULT /\ IsBare(l))

\* the token T of a matching line: the text before its first space (for `T D` with
\* a T free of spaces that is the text before ` D`), a bare line as a whole
TokenOfLine(l) ==
    LET t == Trimmed(l)
        spaces == {k \in 1..Len(t) : t[k] = SP}
        first == IF spaces = {} THEN Len(t) + 1
                 ELSE CHOOSE k \in spaces : \A j \in spaces : k <= j
    IN SubSeq(t, 1, first - 1)

MatchingLines(lines, d) == {i \in 1..Len(lines) : LineMatches(lines[i], d)}
NamingLines(lines, d) == {i \in 1..Len(lines) : NamesHost(lines[i], d)}
Least(S) == CHOOSE i \in S : \A j \in S : i <= j

FileRead == found # None
EnvYieldsNothing == gitlab_token = None \/ Get(gitlab_token) = <<>>

\* the token file yields a token: it is readable and its first matching line
\* carries a non-empty token
FileYieldsToken ==
    /\ token_file.state = "readable"
    /\ MatchingLines(token_file.lines, domain) # {}
    /\ TokenOfLine(token_file.lines[Least(MatchingLines(token_file.lines, domain))]) # <<>>

FileToken == TokenOfLine(token_file.lines[Least(MatchingLines(token_file.lines, domain))])

IsPrefix(s, t) == Len(s) <= Len(t) /\ SubSeq(t, 1, Len(s)) = s
Consulted(src) == \E i \in 1..Len(consulted) : consulted[i] = src

\* ------------------------------------------------------------------------
\* C1
\* ------------------------------------------------------------------------
\* C1 (as amended): for_domain queries its sources in the order environment, token
\* file, glab and stops at the first that yields a token. A non-empty GITLAB_TOKEN
\* is returned and neither the file nor glab is consulted; when the environment
\* yields nothing and the first matching line of the file carries a non-empty
\* token, that token is returned and glab is not consulted; glab is probed only
\* when the environment and the file both yielded nothing.
C1_OrderAndShortCircuit ==
    /\ IsPrefix(consulted, <<"env", "file", "glab">>)
    /\ ~EnvYieldsNothing =>
         /\ ~Consulted("file") /\ ~Consulted("glab")
         /\ dpc = "done" =>
              dresult = Returned(Some(GitLabToken(Get(gitlab_token), EnvProvider)))
    /\ (EnvYieldsNothing /\ FileYieldsToken) =>
         /\ ~Consulted("glab")
         /\ dpc = "done" =>
              dresult = Returned(Some(GitLabToken(FileToken, FileProvider(domain))))
    /\ Consulted("glab") => (EnvYieldsNothing /\ ~FileYieldsToken)

\* C1 witness: discovery finished with the file's token, the environment being empty
C1_FileTokenReturned ==
    /\ dpc = "done"
    /\ EnvYieldsNothing
    /\ dresult.kind = "return"
    /\ dresult.token # None
    /\ Get(dresult.token).provider = FileProvider(domain)

\* C1 as originally stated: whenever the environment yields nothing and the file
\* has a matching line, the file's token is what discovery returns.
C1_AnyMatchingLineReturned ==
    /\ IsPrefix(consulted, <<"env", "file", "glab">>)
    /\ (~EnvYieldsNothing /\ dpc = "done") =>
         dresult = Returned(Some(GitLabToken(Get(gitlab_token), EnvProvider)))
    /\ (/\ dpc = "done"
        /\ EnvYieldsNothing
        /\ token_file.state = "readable"
        /\ MatchingLines(token_file.lines, domain) # {}) =>
         /\ dresult.kind = "return"
         /\ dresult.token # None
         /\ Get(dresult.token).provider = FileProvider(domain)

\* ------------------------------------------------------------------------
\* C2
\* ------------------------------------------------------------------------
\* C2: find_access_token_for_domain returns the token (the text before the first
\* space) of the first line, in file order, that matches the domain: a line
\* matches if, trimmed of trailing
\* whitespace, it ends with a space and the domain, or - for the default domain
\* only - holds no space; a bare line and an explicit default-domain line compete
\* by file order alone; with no matching line the result is None.
C2_FirstMatchInFileOrder ==
    FileRead =>
        LET lines == token_file.lines
            m == MatchingLines(lines, domain) IN
        IF m = {} THEN Get(found) = None
        ELSE Get(found) = Some(TokenOfLine(lines[Least(m)]))

\* C2 witness: for the default domain a bare line and an explicit line naming the
\* default host both match, with different tokens, and the lookup has run
C2_BareAndExplicitCompete ==
    /\ FileRead
    /\ domain = DEFAULT
    /\ \E i, j \in 1..Len(token_file.lines) :
         /\ IsBare(token_file.lines[i])
         /\ NamesHost(token_file.lines[j], DEFAULT)
         /\ TokenOfLine(token_file.lines[i]) # TokenOfLine(token_file.lines[j])
         /\ Get(found) = Some(TokenOfLine(token_file.lines[IF i < j THEN i ELSE j]))

\* ------------------------------------------------------------------------
\* C3
\* ------------------------------------------------------------------------
\* C3: for a domain other than the default, the lookup returns a token only from
\* a line that names the domain, namely the first such line, whatever bare lines
\* precede it; when no line names the domain it returns None.
C3_BareLinesOnlyForDefault ==
    (FileRead /\ domain # DEFAULT) =>
        LET lines == token_file.lines
            n == NamingLines(lines, domain) IN
        /\ (Get(found) # None) <=> (n # {})
        /\ n # {} => Get(found) = Some(TokenOfLine(lines[Least(n)]))

\* C3 witness: a bare line precedes the line naming a non-default domain, and the
\* lookup returned the token of the naming line
C3_BareLinePassedOver ==
    /\ FileRead
    /\ domain # DEFAULT
    /\ Len(token_file.lines) = 2
    /\ IsBare(token_file.lines[1])
    /\ Trimmed(token_file.lines[1]) # <<>>
    /\ NamesHost(token_file.lines[2], domain)
    /\ Get(found) = Some(TokenOfLine(token_file.lines[2]))
    /\ TokenOfLine(token_file.lines[2]) # Trimmed(token_file.lines[1])

\* ------------------------------------------------------------------------
\* C10
\* ------------------------------------------------------------------------
\* the text starts with digits, one character, digits, one character, digits,
\* neither character being a newline
StartsWithLooseTriple(s) ==
    \E i, j, k \in 1..Len(s) :
        /\ i + 1 < j /\ j + 1 < k
        /\ \A n \in (1..i) \cup ((i + 2)..j) \cup ((j + 2)..k) : IsDigit(s[n])
        /\ s[i + 1] # NL /\ s[j + 1] # NL

\* the version probe ran, exited with 0, and its output does not match the pattern
VersionUnparseable ==
    /\ glab.version # None
    /\ Get(glab.version).rc = 0
    /\ LET out == Get(glab.version).stdout IN
       ~(out.marker /\ StartsWithLooseTriple(out.after))

FileOpenFailed == Consulted("file") /\ token_file.state = "unreadable"

GlabFound == glab.which # None /\ Get(glab.which) # None
GlabNotFound == glab.which # None /\ Get(glab.which) = None
VersionProbed == glab.version # None
VersionExitCode == Get(glab.version).rc
VersionStdout == Get(glab.version).stdout
AuthStatusInvoked == glab.auth # None

\* the text starts with <major>.<minor>.<patch>: three runs of digits separated by
\* dots, the last run ending where the digits end
StartsWithDottedTriple(s) ==
    \E i, j, k \in 1..Len(s) :
        /\ i + 1 < j /\ j + 1 < k
        /\ \A n \in (1..i) \cup ((i + 2)..j) \cup ((j + 2)..k) : IsDigit(s[n])
        /\ s[i + 1] = "." /\ s[j + 1] = "."
        /\ k < Len(s) => ~IsDigit(s[k + 1])

\* that triple, as integers
DottedTriple(s) ==
    LET i == CHOOSE n \in 1..Len(s) : s[n] = "."
        j == CHOOSE n \in (i + 1)..Len(s) : s[n] = "."
        rest == {n \in (j + 1)..Len(s) : ~IsDigit(s[n])}
        k == IF rest = {} THEN Len(s) ELSE (CHOOSE n \in rest : \A m \in rest : n <= m) - 1
    IN <<int(SubSeq(s, 1, i - 1)), int(SubSeq(s, i + 1, j - 1)), int(SubSeq(s, j + 1, k))>>

ReportsTriple == VersionStdout.marker /\ StartsWithDottedTriple(VersionStdout.after)

\* t >= (1, 14, 0) in the lexicographic order on integer triples
AtLeastMinimum(t) ==
    \/ t[1] > 1
    \/ t[1] = 1 /\ t[2] > 14
    \/ t[1] = 1 /\ t[2] = 14 /\ t[3] >= 0

\* ------------------------------------------------------------------------
\* C11
\* ------------------------------------------------------------------------
\* C11: when glab is found and `glab --version` exits with 0 but its output holds
\* no `glab version <major>.<minor>.<patch>` triple, discovery raises the
\* unexpected-error and the auth-status subcommand is not invoked.
C11_MalformedVersionRaises ==
    (VersionProbed /\ VersionExitCode = 0 /\ ~ReportsTriple) =>
        /\ dresult = Raised("UnexpectedMacheteException")
        /\ ~AuthStatusInvoked

\* ------------------------------------------------------------------------
\* C12
\* ------------------------------------------------------------------------
\* C12: for every version triple that `glab --version` reports (exit code 0), the
\* auth-status subcommand is invoked if and only if the triple is at least
\* (1, 14, 0) in lexicographic order; below the minimum the CLI source yields
\* None, without error and without invoking auth-status.
C12_VersionGate ==
    (VersionProbed /\ VersionExitCode = 0 /\ ReportsTriple) =>
        IF AtLeastMinimum(DottedTriple(VersionStdout.after))
        THEN dpc = "auth" \/ AuthStatusInvoked
        ELSE dpc = "done" /\ dresult = Returned(None) /\ ~AuthStatusInvoked

\* C12 witness: glab reported 1.13.9, and discovery ended with None without
\* invoking auth-status
C12_JustBelowMinimum ==
    /\ VersionProbed
    /\ VersionExitCode = 0
    /\ ReportsTriple
    /\ DottedTriple(VersionStdout.after) = <<1, 13, 9>>
    /\ dpc = "done"
    /\ dresult = Returned(None)
    /\ ~AuthStatusInvoked

\* ------------------------------------------------------------------------
\* C13
\* ------------------------------------------------------------------------
\* the <value> of a `Token: <value>` fragment: the text after "Token: " up to the
\* next whitespace
TokenLineValue(err) ==
    LET a == err.after
        ws == {n \in 1..Len(a) : a[n] \in Whitespace}
        end == IF ws = {} THEN Len(a) ELSE (CHOOSE n \in ws : \A m \in ws : n <= m) - 1
    IN SubSeq(a, 1, end)

\* C13: once the version gate is passed, the CLI source returns a token if and
\* only if auth-status exits with 0 and its output holds a `Token: <value>`
\* fragment; the token's value is then exactly <value> and its provider names
\* glab and the domain; otherwise the source yields None.
C13_TokenIsValueOfTokenLine ==
    AuthStatusInvoked =>
        LET auth == Get(glab.auth) IN
        IF auth.rc = 0 /\ auth.stderr.marker /\ TokenLineValue(auth.stderr) # <<>>
        THEN dresult = Returned(Some(GitLabToken(TokenLineValue(auth.stderr),
                                                  GlabProvider(domain))))
        ELSE dresult = Returned(None)

\* ------------------------------------------------------------------------
\* C18
\* ------------------------------------------------------------------------
\* C18: when glab is not found no subprocess is spawned and the source yields
\* None; when the version probe exits with a non-zero code the source yields None
\* without invoking auth-status; auth-status is always preceded by a found binary
\* and a version probe that exited with 0.
C18_ProbesInOrder ==
    /\ GlabNotFound =>
         ~VersionProbed /\ ~AuthStatusInvoked /\ dresult = Returned(None)
    /\ VersionProbed => GlabFound
    /\ (VersionProbed /\ VersionExitCode # 0) =>
         ~AuthStatusInvoked /\ dresult = Returned(None)
    /\ (dpc = "auth" \/ AuthStatusInvoked) =>
         GlabFound /\ VersionProbed /\ VersionExitCode = 0

\* C18 witness: glab was found, its version probe failed although its output
\* names a recent version, and discovery ended with None
C18_VersionProbeFailed ==
    /\ GlabFound
    /\ VersionProbed
    /\ VersionExitCode # 0
    /\ ReportsTriple
    /\ AtLeastMinimum(DottedTriple(VersionStdout.after))
    /\ dpc = "done"
    /\ dresult = Returned(None)

\* ------------------------------------------------------------------------
\* Histories of one executor call
\* ------------------------------------------------------------------------
Done == outcome.kind \in {"return", "raise"}
NumResponses == Len(responses)
LastResponse == responses[Len(responses)]
LastRequest == requests[Len(requests)]

\* the answer carries a Link header with a rel="next" URL
CarriesNextLink(resp) == resp.link # None /\ Get(resp.link).rel = "next"

\* the items of the answers i..n, in the order the answers arrived
RECURSIVE ItemsFrom(_, _)
ItemsFrom(i, n) ==
    IF i > n THEN <<>> ELSE responses[i].payload.items \o ItemsFrom(i + 1, n)

\* ------------------------------------------------------------------------
\* C4
\* ------------------------------------------------------------------------
\* C4: when every answer of a call is a successful page holding a list, the pages
\* 1..N-1 carry a Link header with a rel="next" URL and page N does not, the call
\* returns one list: the items of page 1, then those of page 2, ..., then those
\* of page N, nothing missing and nothing twice.
C4_PagesConcatenatedInOrder ==
    (/\ Done
     /\ NumResponses >= 1
     /\ \A i \in 1..NumResponses :
          responses[i].status = 200 /\ responses[i].payload.shape = "list"
     /\ \A i \in 1..(NumResponses - 1) : CarriesNextLink(responses[i])
     /\ ~CarriesNextLink(LastResponse))
    => outcome = CallReturned(List(ItemsFrom(1, NumResponses)))

\* C4 witness: a call over three non-empty pages has returned
C4_ThreePagesReturned ==
    /\ outcome.kind = "return"
    /\ NumResponses = 3
    /\ \A i \in 1..3 : responses[i].status = 200 /\ responses[i].payload = List(<<i>>)
    /\ outcome.value = List(<<1, 2, 3>>)

\* ------------------------------------------------------------------------
\* C5
\* ------------------------------------------------------------------------
TaxonomyErrors ==
    {"UnprocessableEntityHTTPError", "MacheteException", "UnexpectedMacheteException"}

\* C5: whatever the token, the status, the headers and the shape of the body, a
\* call that ends returns a payload or raises one of the taxonomy errors; no
\* other exception reaches the caller.
C5_OnlyTaxonomyErrorsEscape ==
    outcome.kind = "raise" => outcome.exc \in TaxonomyErrors

\* ------------------------------------------------------------------------
\* C6
\* ------------------------------------------------------------------------
\* C6: every 404 answer ends the call with the not-found error, whose message
\* says that a valid token is required and lists all token providers, whether
\* or not the client holds a token.
C6_NotFoundWithOrWithoutToken ==
    (Done /\ NumResponses >= 1 /\ LastResponse.status = 404) =>
        /\ outcome.kind = "raise"
        /\ outcome.exc = "MacheteException"
        /\ outcome.msg.template = "404, a valid token is required"
        /\ outcome.msg.providers = get_possible_providers

\* ------------------------------------------------------------------------
\* C7
\* ------------------------------------------------------------------------
\* C7: every 401 or 403 answer ends the call with an auth error whose variant
\* follows token presence: with a token the message names the token's provider
\* and the method and URL of the request that failed; without a token it asks
\* for a token with repository access and says where to create one; both
\* variants end with the pointer to the other token providers.
C7_AuthErrorFollowsTokenPresence ==
    (Done /\ NumResponses >= 1 /\ LastResponse.status \in {401, 403}) =>
        /\ outcome.kind = "raise"
        /\ outcome.exc = "MacheteException"
        /\ outcome.msg.code = LastResponse.status
        /\ outcome.msg.last_line
        /\ IF client_token # None
           THEN /\ outcome.msg.template = "make sure the token is valid"
                /\ outcome.msg.provider = Some(Get(client_token).provider)
                /\ outcome.msg.method = LastRequest.method
                /\ outcome.msg.url = Some(LastRequest.url)
           ELSE /\ outcome.msg.template = "provide a token with repo access"
                /\ outcome.msg.provider = None
                /\ outcome.msg.domain = Some(client_domain)

\* C7 witness: a client holding a token got a 403 and the call has ended
C7_ForbiddenWithToken ==
    /\ Done
    /\ client_token # None
    /\ NumResponses >= 1
    /\ LastResponse.status = 403
    /\ outcome.msg.provider # None

\* ------------------------------------------------------------------------
\* C8
\* ------------------------------------------------------------------------
\* the text the claim gives a 422 body: for "Validation Failed" one line per entry
\* of the errors list (none if there is no list), the entry's message or else its
\* textual form; otherwise the top-level message
ClaimedLine(error) ==
    IF error.message # None THEN Literal(Get(error.message)) ELSE StrOf(error)
ClaimedText422(body) ==
    IF Get(body.message) = ValidationFailed
    THEN IF body.errors = None THEN <<>>
         ELSE [i \in 1..Len(Get(body.errors)) |-> ClaimedLine(Get(body.errors)[i])]
    ELSE <<Literal(Get(body.message))>>

\* C8: a 422 answer always ends the call with the validation error; its text is,
\* for a top-level message "Validation Failed", the entries of the errors list
\* joined by newlines in list order (an entry's message or else its textual
\* form), and otherwise the top-level message.
C8_ValidationErrorText ==
    (Done /\ NumResponses >= 1 /\ LastResponse.status = 422) =>
        /\ outcome.kind = "raise"
        /\ outcome.exc = "UnprocessableEntityHTTPError"
        /\ LastResponse.body.message # None =>
             outcome.msg.text = ClaimedText422(LastResponse.body)

\* ------------------------------------------------------------------------
\* C9
\* ------------------------------------------------------------------------
\* the Location is https://<host><P> with P holding /repositories/<digits>/
RepairableLocation(resp) ==
    /\ resp.status = 307
    /\ resp.location # None
    /\ Get(resp.location).scheme = "https"
    /\ \E k \in 1..Len(Get(resp.location).segs) :
         /\ k + 1 < Len(Get(resp.location).segs)
         /\ Get(resp.location).segs[k] = "repositories"
         /\ Get(resp.location).segs[k + 1] \in DigitStrings

NumRedirects == Cardinality({i \in 1..NumResponses : responses[i].status = 307})

\* C9: after a 307 whose Location is https://<host><P>, P holding
\* /repositories/<digits>/, the executor fires the request again, at the path P
\* with the method and the body of the request that was redirected, and a call
\* never ends on such an answer; when the retried call is answered by one successful last page, the
\* call returns that page's payload and has emitted exactly one rename warning;
\* a call that returns has warned once per redirect.
C9_RedirectRetriedAtLocationPath ==
    /\ \A i \in 1..NumResponses :
         RepairableLocation(responses[i]) =>
           /\ Done => i < Len(requests)
           /\ i < Len(requests) =>
                /\ requests[i + 1].method = requests[i].method
                /\ requests[i + 1].data = requests[i].data
                /\ requests[i + 1].url.path = Get(responses[i].location).segs
    /\ (/\ Done
        /\ NumResponses = 2
        /\ RepairableLocation(responses[1])
        /\ responses[2].status = 200
        /\ ~CarriesNextLink(responses[2])) =>
         /\ outcome = CallReturned(responses[2].payload)
         /\ Len(warnings) = 1
         /\ warnings[1].code = 307
    /\ outcome.kind = "return" => Len(warnings) = NumRedirects

\* C9 witness: a POST with a body was redirected, retried, and the call returned
\* the retried request's payload with one warning
C9_PostRetriedAndReturned ==
    /\ outcome.kind = "return"
    /\ NumResponses = 2
    /\ RepairableLocation(responses[1])
    /\ requests[1].method = "POST"
    /\ requests[1].data # None
    /\ requests[2].url.path = <<"repositories", "42", "pulls">>
    /\ outcome.value = List(<<2>>)
    /\ Len(warnings) = 1

\* ------------------------------------------------------------------------
\* C14
\* ------------------------------------------------------------------------
\* the project has no id and not both a namespace and a path
Unaddressable(project) ==
    /\ project.id = None \/ Get(project.id) = <<>>
    /\ \/ project.namespace = None
       \/ project.path = None
       \/ Get(project.path) = <<>>

\* C14: create_merge_request on a Project with no id and without both namespace
\* and path raises the addressing error, and no HTTP request is fired for it;
\* stated for a client that holds a token, the one whose create_merge_request
\* gets as far as addressing the project.
C14_AddressingErrorBeforeRequest ==
    (gitlab_client.token # None /\ Unaddressable(Get(gitlab_client.project))) =>
        /\ requests = <<>>
        /\ \A i \in 1..Len(calls) :
             calls[i].op = "create_merge_request" =>
                /\ calls[i].result.kind = "raise"
                /\ calls[i].result.exc = "UnexpectedMacheteException"
                /\ calls[i].result.msg = "cannot generate a URL param"

\* ------------------------------------------------------------------------
\* C15
\* ------------------------------------------------------------------------
\* C15: the recursion of one logical call is bounded whatever the server does:
\* there is a number of requests after which the call asks for no further one.
\* Stated for the number of answers the server is given here: a call that has
\* fired MaxRequests requests is not about to fire another.
C15_RecursionBounded ==
    ~(/\ Len(requests) >= MaxRequests
      /\ stack # <<>>
      /\ stack[1].at = "fire")

\* ------------------------------------------------------------------------
\* C16
\* ------------------------------------------------------------------------
\* the body is GraphQL-shaped: a top-level errors array and no top-level message
GraphqlShaped(body) == body.message = None /\ body.errors # None

\* C16: a 422 answer to a GraphQL request whose body is GraphQL-shaped ends the
\* call with the validation error, whose text holds one line per entry of the
\* errors array: the entry's message, or the entry's full form if it has none.
C16_GraphqlErrorsExtracted ==
    (/\ Done
     /\ NumResponses >= 1
     /\ LastResponse.status = 422
     /\ LastRequest.url.path = GraphqlPath
     /\ GraphqlShaped(LastResponse.body)) =>
        /\ outcome.kind = "raise"
        /\ outcome.exc = "UnprocessableEntityHTTPError"
        /\ outcome.msg.text =
             [i \in 1..Len(Get(LastResponse.body.errors)) |->
                 ClaimedLine(Get(LastResponse.body.errors)[i])]

\* ------------------------------------------------------------------------
\* C17
\* ------------------------------------------------------------------------
\* a URL as the sequence host, segment, segment, ...
RequestUrl(req) == <<req.url.prefix.host>> \o req.url.prefix.root \o req.url.path
LinkUrl(link) == <<link.host>> \o link.segs

\* C17 (as amended): every request goes to url_prefix_for(P) + P, P being the
\* path the executor was called with: for the literal path /graphql the prefix is
\* https://<domain>/api, so that the URL is https://<domain>/api/graphql, and for
\* every other path, next-page paths included, it is https://<domain>/api/v4.
C17_UrlIsPrefixPlusPath ==
    \A i \in 1..Len(requests) :
        LET P == requests[i].url.path IN
        /\ requests[i].url.prefix = url_prefix_for(client_domain, P)
        /\ RequestUrl(requests[i]) =
             IF P = <<"graphql">> THEN <<client_domain, "api", "graphql">>
             ELSE <<client_domain, "api", "v4">> \o P

\* C17 witness: a call to /graphql was answered with a next link, and the next
\* page was requested under the REST root
C17_GraphqlThenNextPage ==
    /\ Len(requests) >= 2
    /\ requests[1].url.path = <<"graphql">>
    /\ RequestUrl(requests[1]) = <<client_domain, "api", "graphql">>
    /\ responses[1].status = 200
    /\ requests[2].url.prefix.root = <<"api", "v4">>

\* C17 as originally stated: url_prefix_for returns the /api/graphql root for the
\* literal path /graphql and the /api/v4 root for every other path.
C17_GraphqlRootForGraphqlPath ==
    \A i \in 1..Len(requests) :
        requests[i].url.prefix.root =
            IF requests[i].url.path = <<"graphql">> THEN <<"api", "graphql">>
            ELSE <<"api", "v4">>

\* ------------------------------------------------------------------------
\* C19
\* ------------------------------------------------------------------------
\* C19: whenever a successful answer carries a Link header with a rel="next" URL
\* the call goes on to fetch that URL, with the method and the body of the first
\* request; a request other than the first follows the answer it continues.
C19_NextLinkFollowed ==
    /\ Len(requests) = Len(responses)
    /\ \A i \in 1..NumResponses :
         (responses[i].status = 200 /\ CarriesNextLink(responses[i])) =>
            /\ Done => i < Len(requests)
            /\ i < Len(requests) =>
                 /\ requests[i + 1].method = requests[1].method
                 /\ requests[i + 1].data = requests[1].data
                 /\ RequestUrl(requests[i + 1]) = LinkUrl(Get(responses[i].link))

\* ------------------------------------------------------------------------
\* C20
\* ------------------------------------------------------------------------
\* the Location holds a /repositories/<digits>/ fragment
HoldsRepositoryId(loc) ==
    \E k \in 1..Len(loc.segs) :
        /\ k + 1 < Len(loc.segs)
        /\ loc.segs[k] = "repositories"
        /\ loc.segs[k + 1] \in DigitStrings

Unrepairable(resp) ==
    /\ resp.status = 307
    /\ resp.location = None \/ ~HoldsRepositoryId(Get(resp.location))

Repaired(resp) == resp.status = 307 /\ ~Unrepairable(resp)

\* the error the executor raises for the last answer
ErrorOfLastResponse ==
    LET step == handle_response(LastRequest, LastResponse, client_token, client_domain)
    IN CallRaised(step.exc, step.msg)

AboutToFire == stack # <<>> /\ stack[1].at = "fire"

\* C21: in redirect repair the name is looked up before the request is fired
\* again, and the rename warning comes only once the retried call has succeeded:
\* while requests are still being fired, and when the call ends with the error
\* of an answer, no warning has been emitted and that error is what the caller
\* gets; a call returns a payload only if its last answer was a success.
C21_WarningOnlyAfterSuccess ==
    /\ Len(lookups) = Cardinality({i \in 1..NumResponses : Repaired(responses[i])})
    /\ Len(warnings) <= Len(lookups)
    /\ warnings # <<>> => (LastResponse.status = 200 /\ ~AboutToFire)
    /\ (outcome.kind = "raise" /\ LastResponse.status # 200) =>
         /\ warnings = <<>>
         /\ outcome = ErrorOfLastResponse
    /\ (outcome.kind = "raise" /\ NumResponses >= 1 /\ Repaired(responses[1])) =>
         Len(warnings) < Len(lookups)
    /\ outcome.kind = "return" =>
         /\ LastResponse.status = 200
         /\ Len(warnings) = Len(lookups)

\* C21 witness: the request was redirected, the name was looked up, the retried
\* request was answered with 500, and the call raised without any warning
C21_RetryFailed ==
    /\ NumResponses = 2
    /\ Repaired(responses[1])
    /\ responses[2].status = 500
    /\ Len(lookups) = 1
    /\ warnings = <<>>
    /\ outcome.kind = "raise"
    /\ outcome.msg.code = 500

\* ------------------------------------------------------------------------
\* C22
\* ------------------------------------------------------------------------
\* the branches of lines 116-168
Branches == {"422", "401/403", "404", "307", "other"}

\* line 116, 120, 133, 141, 167: the branch that handles an error status
branch_of(status) ==
    CASE status = 422 -> "422"
      [] status \in {401, 403} -> "401/403"
      [] status = 404 -> "404"
      [] status = 307 -> "307"
      [] OTHER -> "other"

\* the errors each branch can end with, as <<exception, message template>>
BranchErrors(branch) ==
    CASE branch = "422" ->
           {<<"UnprocessableEntityHTTPError", "">>, <<"KeyError", "">>}
      [] branch = "401/403" ->
           {<<"MacheteException", "make sure the token is valid">>,
            <<"MacheteException", "provide a token with repo access">>}
      [] branch = "404" ->
           {<<"MacheteException", "404, a valid token is required">>,
            <<"AttributeError", "">>}
      [] branch = "307" ->
           {<<"UnexpectedMacheteException", "307 without Location">>,
            <<"UnexpectedMacheteException", "could not extract org and repo">>}
      [] OTHER -> {<<"UnexpectedMacheteException", "unexpected status">>}

ErrorStatus(resp) == resp.status \notin {200, 0}

\* C22: every error status is handled by exactly one of the branches 422,
\* 401/403, 404, 307 and other, and no two branches end with the same error; an
\* error answer other than a repaired 307 ends the call, and a status other than
\* 422, 401, 403, 404 and 307 raises the unexpected-error that carries the
\* status code and the reason phrase, without any further request.
C22_ClassificationTotalAndExclusive ==
    /\ \A b1, b2 \in Branches :
         b1 # b2 => BranchErrors(b1) \cap BranchErrors(b2) = {}
    /\ \A i \in 1..NumResponses :
         ErrorStatus(responses[i]) =>
            /\ branch_of(responses[i].status) \in Branches
            /\ \/ Repaired(responses[i])
               \/ /\ i = Len(requests)
                  /\ outcome.kind = "raise"
                  /\ <<outcome.exc, outcome.msg.template>>
                       \in BranchErrors(branch_of(responses[i].status))
                  /\ responses[i].status \notin {422, 401, 403, 404, 307} =>
                       /\ outcome.exc = "UnexpectedMacheteException"
                       /\ outcome.msg.template = "unexpected status"
                       /\ outcome.msg.code = responses[i].status
                       /\ outcome.msg.reason = responses[i].reason

\* C22 witness: the second page of a call was answered with 400 Bad Request
C22_BadRequestOnSecondPage ==
    /\ NumResponses = 2
    /\ responses[1].status = 200
    /\ responses[2].status = 400
    /\ outcome.kind = "raise"
    /\ outcome.msg.reason = "Bad Request"

\* ------------------------------------------------------------------------
\* C23
\* ------------------------------------------------------------------------
HeaderNames(req) == {h[1] : h \in req.headers}

\* C23: every request fired - first, next-page and retried - carries the three
\* default headers, and an Authorization header if and only if the client holds
\* a token; its value is then "Bearer " followed by the token value.
C23_HeadersOnEveryRequest ==
    \A i \in 1..Len(requests) :
        /\ DEFAULT_HEADERS \subseteq requests[i].headers
        /\ HeaderNames(requests[i]) =
             {"Content-Type", "User-Agent", "Accept"}
             \cup (IF client_token # None THEN {"Authorization"} ELSE {})
        /\ client_token # None =>
             <<"Authorization", <<"Bearer ", Get(client_token).value>>>>
                 \in requests[i].headers

\* C23 witness: a client holding a token fired a request, its retry after a
\* redirect and a next-page request
C23_TokenOnRetryAndNextPage ==
    /\ client_token # None
    /\ Len(requests) = 3
    /\ Repaired(responses[1])
    /\ responses[2].status = 200
    /\ CarriesNextLink(responses[2])
    /\ "Authorization" \in HeaderNames(requests[3])

\* ------------------------------------------------------------------------
\* C26
\* ------------------------------------------------------------------------
\* C26: when a page of a paginated call, or the retried request of a redirect
\* repair, is answered with an error, the call raises the error of that answer
\* and hands no payload to the caller, whatever pages were fetched before.
C26_NoPartialResult ==
    (Done /\ NumResponses >= 1 /\ LastResponse.status # 200) =>
        /\ outcome = ErrorOfLastResponse
        /\ outcome.kind = "raise"
        /\ outcome.value = NoPayload

\* C26 witness: two non-empty pages were fetched, the third request was answered
\* with 500, and the call raised
C26_ThirdPageFailed ==
    /\ NumResponses = 3
    /\ \A i \in 1..2 : responses[i].status = 200 /\ responses[i].payload = List(<<i>>)
    /\ responses[3].status = 500
    /\ outcome.kind = "raise"

\* ------------------------------------------------------------------------
\* C29
\* ------------------------------------------------------------------------
\* C29: the DEFAULT_HEADERS table holds the same three items whatever requests
\* have been fired, so the headers of a request start from those three items
\* only: a request of a client without a token carries no Authorization header.
C29_DefaultHeadersUnchanged ==
    /\ default_headers = DEFAULT_HEADERS
    /\ \A h \in default_headers : h[1] # "Authorization"
    /\ client_token = None =>
         \A i \in 1..Len(requests) : "Authorization" \notin HeaderNames(requests[i])

\* C29 witness: a client holding a token has fired two requests, each with an
\* Authorization header
C29_TwoAuthorizedRequests ==
    /\ client_token # None
    /\ Len(requests) = 2
    /\ \A i \in 1..2 : "Authorization" \in HeaderNames(requests[i])

\* ------------------------------------------------------------------------
\* C28
\* ------------------------------------------------------------------------
\* the file was read and the matching line gave the empty text as the token
FileGaveEmptyToken == FileRead /\ Get(found) = Some(<<>>)

\* C28: a token returned by for_domain has a non-empty value. An empty
\* environment variable and a matching file line with an empty token make the
\* chain go on to the next source, and an auth-status output without a token
\* makes it return no token.
C28_TokenValueNonEmpty ==
    /\ (dresult.kind = "return" /\ dresult.token # None) =>
         Get(dresult.token).value # <<>>
    /\ (gitlab_token = Some(<<>>) /\ Consulted("env")) =>
         (dpc = "file" \/ Consulted("file"))
    /\ FileGaveEmptyToken => (dpc = "which" \/ Consulted("glab"))
    /\ (AuthStatusInvoked /\ glab_token_match(Get(glab.auth).stderr) = None) =>
         dresult = Returned(None)

\* C28 witness: the environment variable was empty, a blank line of the file
\* matched the default domain, auth-status exited with 0 and printed "Token: "
\* with nothing after it, and for_domain returned no token
C28_ThreeEmptySources ==
    /\ gitlab_token = Some(<<>>)
    /\ domain = DEFAULT
    /\ FileGaveEmptyToken
    /\ AuthStatusInvoked
    /\ Get(glab.auth).rc = 0
    /\ Get(glab.auth).stderr = [marker |-> TRUE, after |-> <<>>]
    /\ dresult = Returned(None)

\* ------------------------------------------------------------------------
\* C24
\* ------------------------------------------------------------------------
Constructed == dpc = "constructed"

\* C24: the client asks the discovery chain once, while it is constructed: each
\* source is consulted at most once and no operation is called before the token
\* is stored; the token the client holds is the one discovery returned and is
\* the same at every later call; and every call of a token-holding client that
\* needs the platform enters the executor with a request.
C24_DiscoveryOnceThenExecutor ==
    /\ IsPrefix(consulted, <<"env", "file", "glab">>)
    /\ calls # <<>> => Constructed
    /\ Constructed =>
         /\ dresult.kind = "return"
         /\ gitlab_client.token = dresult.token
    /\ \A i \in 1..Len(calls) :
         /\ calls[i].token = gitlab_client.token
         /\ (calls[i].token # None /\ calls[i].op = "get_current_user_login") =>
              calls[i].result.kind = "fire"

\* ------------------------------------------------------------------------
\* C25
\* ------------------------------------------------------------------------
\* the id is given and is not the empty string
HasId(project) == project.id # None /\ Get(project.id) # <<>>

\* a Namespace is given, and a path that is not the empty string
HasNamespaceAndPath(project) ==
    /\ project.namespace # None
    /\ project.path # None
    /\ Get(project.path) # <<>>

\* percent-decoding of %2F and %20
RECURSIVE unquote(_)
unquote(s) ==
    IF s = <<>> THEN <<>>
    ELSE IF Len(s) >= 3 /\ SubSeq(s, 1, 3) = <<"%", "2", "F">>
    THEN <<"/">> \o unquote(SubSeq(s, 4, Len(s)))
    ELSE IF Len(s) >= 3 /\ SubSeq(s, 1, 3) = <<"%", "2", "0">>
    THEN <<SP>> \o unquote(SubSeq(s, 4, Len(s)))
    ELSE <<s[1]>> \o unquote(Tail(s))

HasSlash(s) == \E k \in 1..Len(s) : s[k] = "/"

\* C25: uri_param returns the id whenever an id that is not the empty string is
\* given, whatever namespace and path are; otherwise, when a Namespace and a
\* non-empty path are given, it returns the percent-encoded text of
\* <namespace full_path>/<path>, in which no `/` is left; otherwise it raises the
\* addressing error; what it returns is never the empty string.
C25_UriParamPrefersId ==
    \A i \in 1..Len(calls) :
        calls[i].op = "uri_param" =>
            LET project == Get(gitlab_client.project)
                result == calls[i].result IN
            /\ HasId(project) => result = OpReturned(Some(Get(project.id)))
            /\ (~HasId(project) /\ HasNamespaceAndPath(project)) =>
                 /\ result.kind = "return"
                 /\ ~HasSlash(Get(result.value))
                 /\ unquote(Get(result.value)) =
                      Get(project.namespace) \o <<"/">> \o Get(project.path)
            /\ (~HasId(project) /\ ~HasNamespaceAndPath(project)) =>
                 result = OpRaised("UnexpectedMacheteException", "cannot generate a URL param")
            /\ result.kind = "return" => Get(result.value) # <<>>

\* C25 witness: uri_param was called on a project with an id, a nested
\* namespace and a path, and returned the id
C25_IdWinsOverNamespacedPath ==
    /\ Get(gitlab_client.project) = Project(Some(<<"7">>), Some(<<"p">>), Some(<<"a", "/", "b">>))
    /\ \E i \in 1..Len(calls) :
         /\ calls[i].op = "uri_param"
         /\ calls[i].result = OpReturned(Some(<<"7">>))

\* ------------------------------------------------------------------------
\* C27
\* ------------------------------------------------------------------------
\* C27: a client without a token fires no request: get_current_user_login
\* returns None and create_merge_request raises the no-token error; a client with
\* a token, asked to create a merge request for an addressable project, enters
\* the executor with one POST whose title is the given title, prefixed with
\* "[Draft] " if and only if is_draft is set.
C27_TokenGuardsRequests ==
    /\ gitlab_client.token = None => requests = <<>>
    /\ \A i \in 1..Len(calls) :
         LET c == calls[i] IN
         /\ (c.token = None /\ c.op = "get_current_user_login") =>
              c.result = OpReturned(None)
         /\ (c.token = None /\ c.op = "create_merge_request") =>
              c.result = OpRaised("UnexpectedMacheteException",
                                  "cannot create a merge request without a token")
         /\ (c.token # None /\ c.op = "create_merge_request"
                /\ ~Unaddressable(Get(gitlab_client.project))) =>
              /\ c.result.kind = "fire"
              /\ Get(c.result.request).method = "POST"
              /\ Get(c.result.request).body.title =
                   (IF c.is_draft THEN <<"[Draft] ", "T">> ELSE <<"T">>)

====
